---- MODULE Spec2Model ----
(***************************************************************************)
(* Model of lib/util_hash.c of xbps: hex encoding and comparison of a      *)
(* SHA-256 digest, read-only mapping of a file with a guard page,          *)
(* streaming digest of a file, and verification of a file against the      *)
(* digest recorded in a package dictionary.                                *)
(*                                                                         *)
(* Three specifications share the module:                                  *)
(*   SpecHex  digest2string and sha256_digest_compare on drawn inputs      *)
(*   SpecMap  xbps_mmap_file followed by the caller's munmap               *)
(*   Spec     xbps_file_hash_check_dictionary, which runs                  *)
(*            file_hash_dictionary, xbps_file_sha256_check and             *)
(*            xbps_file_sha256_raw                                         *)
(* C strings of hex digits and of path names are sequences of characters   *)
(* without the terminating NUL; hex digits are ASCII codes, path           *)
(* characters are one-character strings.                                   *)
(***************************************************************************)
EXTENDS Integers, Sequences, FiniteSets, TLC

VARIABLES
    \* ---- sha256_digest_compare / digest2string (SpecHex)
    cmp_sha256,     \* the hex string argument
    cmp_digest,     \* the raw digest buffer argument; digestlen is its length
    cmp_done,       \* sha256_digest_compare was called
    cmp_result,     \* the boolean it returned
    enc_done,       \* digest2string was called
    enc_string,     \* the string it wrote
    \* ---- xbps_mmap_file (SpecMap)
    pgsize,         \* sysconf(_SC_PAGESIZE)
    st_size,        \* the size fstat reports
    mm_pc,          \* "call" | "returned" | "unmapped"
    mm_ret,         \* the boolean xbps_mmap_file returned (FALSE before)
    mmf,            \* *mmf: "unset" | "addr"
    mmflen,         \* *mmflen: "unset" | the length
    filelen,        \* *filelen: "unset" | the length
    mm_reqlen,      \* the length handed to mmap, -1 when mmap was not called
    mm_mapped,      \* bytes of address space reserved by mmap and not yet unmapped
    mm_calls,       \* the system calls issued, in order
    \* ---- xbps_file_hash_check_dictionary and what it calls (Spec)
    d,              \* the dictionary: key -> NoArray | sequence of entries
    key,
    file,
    rootdir,        \* xhp->rootdir
    pc,             \* "verify" | "open" | "read" | "close" | "done"
    errno,
    sha256d,        \* what file_hash_dictionary returned (NULL or a hex string)
    iter_calls,     \* iterator calls issued by file_hash_dictionary, in order
    check_calls,    \* the calls of xbps_file_sha256_check: <<path, sha256>>
    content,        \* the bytes of the file that open() opened
    off,            \* the descriptor's file offset
    len,            \* the result of the last read()
    ctx,            \* the bytes fed to the SHA-256 accumulator so far
    finalized,      \* SHA256_Final was called
    dst,            \* the digest buffer of xbps_file_sha256_check, <<>> while unwritten
    fd_calls,       \* descriptor calls issued by xbps_file_sha256_raw, in order
    ioerr,          \* the errno set by the failing open() or read(), 0 if none failed
    raw_ret,        \* what xbps_file_sha256_raw returned, once it was called
    rv,             \* what xbps_file_sha256_check returned, once it was called
    ret             \* what xbps_file_hash_check_dictionary returned, once pc = "done"

hexVars == <<cmp_sha256, cmp_digest, cmp_done, cmp_result, enc_done, enc_string>>
mapVars == <<pgsize, st_size, mm_pc, mm_ret, mmf, mmflen, filelen, mm_reqlen,
             mm_mapped, mm_calls>>
verVars == <<d, key, file, rootdir, pc, errno, sha256d, iter_calls, check_calls,
             content, off, len, ctx, finalized, dst, fd_calls, ioerr, raw_ret,
             rv, ret>>
vars == <<hexVars, mapVars, verVars>>

\* the null pointer where a string is expected: no string holds the character -1
NULL == <<-1>>

(***************************************************************************)
(* Bounds of the model.                                                    *)
(***************************************************************************)
\* digests drawn for SpecHex are numbered 0..MaxSeed
MaxSeed == 2
\* width in bits of size_t in SpecMap (64 in the build; ssize_t and off_t
\* have the same width)
SizeBits == 7
\* longest array of entries under a key
MaxEntries == 2
\* longest file content
MaxFileLen == 3
\* sizeof(buf) of xbps_file_sha256_raw, scaled down from 65536 so that files
\* of MaxFileLen bytes need several full reads
BufSize == 2

(***************************************************************************)
(* Program constants.                                                      *)
(***************************************************************************)
XBPS_SHA256_DIGEST_SIZE == 32
XBPS_SHA256_SIZE == 65
Char0 == 48
CharA == 97
ENOENT == 2
EINTR == 4
EIO == 5
EACCES == 13
EISDIR == 21
ERANGE == 34

(***************************************************************************)
(* digest2string, lines 24-39.                                             *)
(***************************************************************************)
RECURSIVE digest2string_loop(_, _, _)
digest2string_loop(digest, i, n) ==
    IF n = 0 THEN <<>>
    ELSE LET hi == IF (digest[i] \div 16) < 10
                   THEN Char0 + (digest[i] \div 16)
                   ELSE CharA + (digest[i] \div 16) - 10
             lo == IF (digest[i] % 16) < 10
                   THEN Char0 + (digest[i] % 16)
                   ELSE CharA + (digest[i] % 16) - 10
         IN  <<hi, lo>> \o digest2string_loop(digest, i + 1, n - 1)

digest2string(digest, n) == digest2string_loop(digest, 1, n)

(***************************************************************************)
(* sha256_digest_compare, lines 143-175.  *sha256 past the last character  *)
(* is the terminating NUL.                                                 *)
(***************************************************************************)
CharAt(s, p) == IF p <= Len(s) THEN s[p] ELSE 0

RECURSIVE compare_loop(_, _, _, _)
compare_loop(s, p, digest, i) ==
    IF CharAt(s, p) = 0 THEN TRUE
    ELSE IF (digest[i] \div 16) < 10 /\ CharAt(s, p) # Char0 + (digest[i] \div 16)
         THEN FALSE
    ELSE IF ~((digest[i] \div 16) < 10) /\ CharAt(s, p) # CharA + (digest[i] \div 16) - 10
         THEN FALSE
    ELSE IF (digest[i] % 16) < 10 /\ CharAt(s, p + 1) # Char0 + (digest[i] % 16)
         THEN FALSE
    ELSE IF ~((digest[i] % 16) < 10) /\ CharAt(s, p + 1) # CharA + (digest[i] % 16) - 10
         THEN FALSE
    ELSE compare_loop(s, p + 2, digest, i + 1)

\* the comparison without the rejection of a short string
sha256_digest_compare_short(s, shalen, digest, digestlen) ==
    IF shalen > XBPS_SHA256_SIZE - 1 THEN FALSE
    ELSE IF digestlen # XBPS_SHA256_DIGEST_SIZE THEN FALSE
    ELSE compare_loop(s, 1, digest, 1)

sha256_digest_compare(s, shalen, digest, digestlen) ==
    IF shalen # XBPS_SHA256_SIZE - 1 THEN FALSE
    ELSE IF digestlen # XBPS_SHA256_DIGEST_SIZE THEN FALSE
    ELSE compare_loop(s, 1, digest, 1)

(***************************************************************************)
(* Inputs of SpecHex.  HexText is the digest text format written from the  *)
(* digit table, not by digest2string.                                      *)
(***************************************************************************)
HexDigits == <<48, 49, 50, 51, 52, 53, 54, 55, 56, 57, 97, 98, 99, 100, 101, 102>>

HexText(digest) ==
    [k \in 1..(2 * Len(digest)) |->
        IF k % 2 = 1 THEN HexDigits[(digest[(k + 1) \div 2] \div 16) + 1]
                     ELSE HexDigits[(digest[k \div 2] % 16) + 1]]

SeedDigest(k, n) == [i \in 1..n |-> ((k * 83) + (i * 27)) % 256]

DigestLens == {XBPS_SHA256_DIGEST_SIZE - 1, XBPS_SHA256_DIGEST_SIZE,
               XBPS_SHA256_DIGEST_SIZE + 1}

DigestInputs == {SeedDigest(k, n) : k \in 0..MaxSeed, n \in DigestLens}

Upper(c) == IF c >= 97 /\ c <= 102 THEN c - 32 ELSE c

\* one character of s replaced
Replace(s, p, c) == [s EXCEPT ![p] = c]

MutPositions == {1, 2, 31, 63, 64}

StringsOf(digest) ==
    LET s == HexText(digest)
    IN  {s}
        \cup {Replace(s, p, Upper(s[p])) : p \in MutPositions}
        \cup {Replace(s, p, c) : p \in MutPositions, c \in {48, 102, 103}}
        \cup {SubSeq(s, 1, n) : n \in {0, 1, Len(s) - 2, Len(s) - 1}}
        \cup {s \o <<48>>, s \o <<48, 48>>, s \o SubSeq(s, 1, 2)}

StringInputs ==
    UNION {StringsOf(SeedDigest(k, n)) : k \in 0..MaxSeed, n \in DigestLens}

HexInit ==
    /\ cmp_digest \in DigestInputs
    /\ cmp_sha256 \in StringInputs
    /\ cmp_done = FALSE
    /\ cmp_result = FALSE
    /\ enc_done = FALSE
    /\ enc_string = <<>>

HexIdle ==
    /\ cmp_digest = <<>>
    /\ cmp_sha256 = <<>>
    /\ cmp_done = FALSE
    /\ cmp_result = FALSE
    /\ enc_done = FALSE
    /\ enc_string = <<>>

\* the call of line 188, on any string and any digest buffer
Compare ==
    /\ ~cmp_done
    /\ cmp_done' = TRUE
    /\ cmp_result' = sha256_digest_compare(cmp_sha256, Len(cmp_sha256),
                                           cmp_digest, Len(cmp_digest))
    /\ UNCHANGED <<cmp_sha256, cmp_digest, enc_done, enc_string, mapVars, verVars>>

\* the call of line 138: a whole digest buffer encoded
Encode ==
    /\ ~enc_done
    /\ enc_done' = TRUE
    /\ Len(cmp_digest) = XBPS_SHA256_DIGEST_SIZE
    /\ enc_string' = digest2string(cmp_digest, XBPS_SHA256_DIGEST_SIZE)
    /\ UNCHANGED <<cmp_sha256, cmp_digest, cmp_done, cmp_result, mapVars, verVars>>

(***************************************************************************)
(* xbps_mmap_file, lines 41-90.  size_t arithmetic is modulo 2^SizeBits.   *)
(***************************************************************************)
SIZE_MOD == 2 ^ SizeBits
SIZE_MAX == SIZE_MOD - 1
SSIZE_MAX == (2 ^ (SizeBits - 1)) - 1

RECURSIVE BitAndN(_, _, _)
BitAndN(a, b, n) ==
    IF n = 0 THEN 0
    ELSE ((a % 2) * (b % 2)) + (2 * BitAndN(a \div 2, b \div 2, n - 1))

\* a & b and ~a on size_t
BitAnd(a, b) == BitAndN(a, b, SizeBits)
BitNot(a) == SIZE_MAX - a

PageSizes == {2 ^ k : k \in 1..(SizeBits - 2)}
FileSizes == 0..SSIZE_MAX

\* line 64
MapSize(size, pgmask) == BitAnd((size + pgmask) % SIZE_MOD, BitNot(pgmask))

\* a guard page for every file that is not empty
NeedGuardNonEmpty(size, pgmask) == size > 0

\* lines 74-75
NeedGuard(size, pgmask) == BitAnd(size, pgmask) = 0

\* the length of line 77
RequestLen(size, pgsz) ==
    LET pgmask == (pgsz - 1) % SIZE_MOD
        mapsize == MapSize(size, pgmask)
    IN  IF NeedGuard(size, pgmask) THEN (mapsize + pgsz) % SIZE_MOD ELSE mapsize

SysCall(name, arg, ok) == [call |-> name, arg |-> arg, ok |-> ok]

\* The whole call under one outcome of the system calls.  mmap of length 0
\* fails whatever the system's state.
mmap_file_run(outcome, size, pgsz) ==
    LET pgmask == (pgsz - 1) % SIZE_MOD
        mapsize == MapSize(size, pgmask)
        req == RequestLen(size, pgsz)
        failed(calls, r) ==
            [ret |-> FALSE, mmf |-> "unset", mmflen |-> "unset",
             filelen |-> "unset", reqlen |-> r, mapped |-> 0, calls |-> calls]
    IN  IF outcome = "open_fails"
        THEN failed(<<SysCall("open", "file", FALSE)>>, -1)
        ELSE IF outcome = "fstat_fails"
        THEN failed(<<SysCall("open", "file", TRUE), SysCall("fstat", "fd", FALSE),
                      SysCall("close", "fd", TRUE)>>, -1)
        ELSE IF size > SSIZE_MAX - 1
        THEN failed(<<SysCall("open", "file", TRUE), SysCall("fstat", "fd", TRUE),
                      SysCall("close", "fd", TRUE)>>, -1)
        ELSE IF mapsize < size
        THEN failed(<<SysCall("open", "file", TRUE), SysCall("fstat", "fd", TRUE),
                      SysCall("close", "fd", TRUE)>>, -1)
        ELSE IF outcome = "mmap_fails" \/ req = 0
        THEN failed(<<SysCall("open", "file", TRUE), SysCall("fstat", "fd", TRUE),
                      SysCall("mmap", "fd", FALSE), SysCall("close", "fd", TRUE),
                      SysCall("munmap", "MAP_FAILED", FALSE)>>, req)
        ELSE [ret |-> TRUE, mmf |-> "addr", mmflen |-> mapsize,
              filelen |-> size, reqlen |-> req, mapped |-> req,
              calls |-> <<SysCall("open", "file", TRUE), SysCall("fstat", "fd", TRUE),
                          SysCall("mmap", "fd", TRUE), SysCall("close", "fd", TRUE)>>]

MapInit ==
    /\ pgsize \in PageSizes
    /\ st_size \in FileSizes
    /\ mm_pc = "call"
    /\ mm_ret = FALSE
    /\ mmf = "unset"
    /\ mmflen = "unset"
    /\ filelen = "unset"
    /\ mm_reqlen = -1
    /\ mm_mapped = 0
    /\ mm_calls = <<>>

MapIdle ==
    /\ pgsize = 0
    /\ st_size = 0
    /\ mm_pc = "idle"
    /\ mm_ret = FALSE
    /\ mmf = "unset"
    /\ mmflen = "unset"
    /\ filelen = "unset"
    /\ mm_reqlen = -1
    /\ mm_mapped = 0
    /\ mm_calls = <<>>

xbps_mmap_file ==
    /\ mm_pc = "call"
    /\ \E outcome \in {"open_fails", "fstat_fails", "mmap_fails", "ok"} :
         LET r == mmap_file_run(outcome, st_size, pgsize)
         IN  /\ mm_ret' = r.ret
             /\ mmf' = r.mmf
             /\ mmflen' = r.mmflen
             /\ filelen' = r.filelen
             /\ mm_reqlen' = r.reqlen
             /\ mm_mapped' = r.mapped
             /\ mm_calls' = r.calls
    /\ mm_pc' = "returned"
    /\ UNCHANGED <<pgsize, st_size, hexVars, verVars>>

\* What munmap(addr, length) leaves of a mapping of `mapped` bytes that
\* starts at addr: a length of 0 is rejected and unmaps nothing.
MunmapLeaves(mapped, length) ==
    IF length = 0 THEN mapped
    ELSE IF length >= mapped THEN 0
    ELSE mapped - length

\* The caller releases the mapping with the values the call returned.
CallerMunmap ==
    /\ mm_pc = "returned"
    /\ mm_ret = TRUE
    /\ mm_mapped' = MunmapLeaves(mm_mapped, mmflen)
    /\ mm_calls' = Append(mm_calls, SysCall("munmap", mmf, mmflen # 0))
    /\ mm_pc' = "unmapped"
    /\ UNCHANGED <<pgsize, st_size, mm_ret, mmf, mmflen, filelen, mm_reqlen, hexVars,
                   verVars>>

(***************************************************************************)
(* The SHA-256 accumulator of OpenSSL.  The context is the sequence of     *)
(* bytes fed so far; SHA256_Final is a stand-in for the compression        *)
(* function that keeps what matters here: it is a function of the bytes    *)
(* fed and of their order, it gives the well-known digest of the empty     *)
(* input, and it separates the contents of the model.                      *)
(***************************************************************************)
EmptySha256 ==
    <<227, 176, 196, 66, 152, 252, 28, 20, 154, 251, 244, 200, 153, 111, 185, 36,
      39, 174, 65, 228, 100, 155, 147, 76, 164, 149, 153, 27, 120, 82, 184, 85>>

RECURSIVE Mix(_)
Mix(bytes) ==
    IF bytes = <<>> THEN 0
    ELSE ((Mix(SubSeq(bytes, 1, Len(bytes) - 1)) * 31) + bytes[Len(bytes)] + 1) % 251

SHA256_Init == <<>>
SHA256_Update(c, bytes) == c \o bytes
SHA256_Final(c) ==
    [i \in 1..XBPS_SHA256_DIGEST_SIZE |-> (EmptySha256[i] + (Mix(c) * i)) % 256]

(***************************************************************************)
(* Inputs of Spec.                                                         *)
(***************************************************************************)
NoArray == "NoArray"
Keys == {"files", "conf_files"}
Paths == {<<"f">>, <<"g">>}
RootDirs == {<<"/">>, <<"/", "r">>, <<"/", "/">>}

BaseBytes(n) == [i \in 1..n |-> 10 * i]
RevBytes(n) == [i \in 1..n |-> 10 * ((n + 1) - i)]
FileContents == {BaseBytes(n) : n \in 0..MaxFileLen} \cup {RevBytes(n) : n \in 0..MaxFileLen}

UpperText(s) == [k \in 1..Len(s) |-> Upper(s[k])]

\* the "sha256" field of an entry: absent, the digest text of a content, or
\* that text in upper case
DigestFields ==
    {NULL, HexText(SHA256_Final(BaseBytes(0))), HexText(SHA256_Final(BaseBytes(2))),
     UpperText(HexText(SHA256_Final(BaseBytes(0))))}

Entries == [file : Paths, sha256 : DigestFields]

RECURSIVE SeqsUpTo(_, _)
SeqsUpTo(S, n) ==
    IF n = 0 THEN {<<>>}
    ELSE LET shorter == SeqsUpTo(S, n - 1)
         IN  shorter \cup {Append(q, x) : q \in {t \in shorter : Len(t) = n - 1}, x \in S}

Dictionaries == {[files |-> a, conf_files |-> NoArray] : a \in SeqsUpTo(Entries, MaxEntries)}

OpenErrnos == {ENOENT, EACCES}
ReadErrnos == {EIO, EISDIR}
CloseErrnos == {EINTR, EIO}

(***************************************************************************)
(* file_hash_dictionary, lines 194-225.                                    *)
(***************************************************************************)
\* the loop that keeps the last matching entry's digest
RECURSIVE dict_scan_last(_, _, _)
dict_scan_last(arr, i, f) ==
    IF i > Len(arr) THEN NULL
    ELSE LET rest == dict_scan_last(arr, i + 1, f)
         IN  IF arr[i].file = f /\ rest = NULL THEN arr[i].sha256 ELSE rest

\* lines 210-219: the digest field of the entry the loop breaks at, NULL when
\* the iterator is exhausted first
RECURSIVE dict_scan(_, _, _)
dict_scan(arr, i, f) ==
    IF i > Len(arr) THEN NULL
    ELSE IF arr[i].file = f THEN arr[i].sha256
    ELSE dict_scan(arr, i + 1, f)

file_hash_dictionary(dict, k, f, e) ==
    IF dict[k] = NoArray
    THEN [sha256 |-> NULL, errno |-> ENOENT,
          calls |-> <<SysCall("xbps_array_iter_from_dict", k, FALSE)>>]
    ELSE LET found == dict_scan(dict[k], 1, f)
         IN  [sha256 |-> found,
              errno |-> IF found = NULL THEN ENOENT ELSE e,
              calls |-> <<SysCall("xbps_array_iter_from_dict", k, TRUE),
                          SysCall("xbps_object_iterator_release", "iter", TRUE)>>]

(***************************************************************************)
(* xbps_xasprintf: the format's %s replaced by the arguments in order.     *)
(***************************************************************************)
RECURSIVE xbps_xasprintf(_, _)
xbps_xasprintf(fmt, args) ==
    IF fmt = <<>> THEN <<>>
    ELSE IF Len(fmt) >= 2 /\ fmt[1] = "%" /\ fmt[2] = "s"
    THEN Head(args) \o xbps_xasprintf(SubSeq(fmt, 3, Len(fmt)), Tail(args))
    ELSE <<Head(fmt)>> \o xbps_xasprintf(Tail(fmt), args)

\* the root directory joined to every path
EffectivePathJoined(root, f) == xbps_xasprintf(<<"%", "s", "/", "%", "s">>, <<root, f>>)

\* lines 248-254: the path handed to xbps_file_sha256_check
EffectivePath(root, f) ==
    IF root = <<"/">> THEN f
    ELSE xbps_xasprintf(<<"%", "s", "/", "%", "s">>, <<root, f>>)

\* a lookup that found nothing reported as an error
NotFoundReturnError(e) == -1

\* lines 242-245
NotFoundReturn(e) == IF e = ENOENT THEN 1 ELSE -1

\* a file absent on disk reported as an error
check_dictionary_return_strict(r) ==
    IF r = 0 THEN 0
    ELSE IF r = ERANGE THEN 1
    ELSE -1

\* lines 255-260
check_dictionary_return(r) ==
    IF r = 0 THEN 0
    ELSE IF r = ERANGE \/ r = ENOENT THEN 1
    ELSE -1

\* lines 185-191: raw_ok is what xbps_file_sha256_raw returned, e is errno
\* after it, digest is the buffer it filled
sha256_check_return(raw_ok, e, sha256, digest) ==
    IF ~raw_ok THEN e
    ELSE IF ~sha256_digest_compare(sha256, Len(sha256), digest, Len(digest)) THEN ERANGE
    ELSE 0

\* the chunk taken from the start of the file at every read
ReadBytesFromStart(c, o, n) == SubSeq(c, 1, n)

\* line 111: the n bytes read() puts in buf at file offset o
ReadBytes(c, o, n) == SubSeq(c, o + 1, o + n)

Min(a, b) == IF a < b THEN a ELSE b

(***************************************************************************)
(* xbps_file_hash_check_dictionary, lines 227-261, with the calls of       *)
(* xbps_file_sha256_check (177-192) and xbps_file_sha256_raw (92-122).     *)
(* The control stops at each system call whose outcome the environment     *)
(* decides: open, every read, close.                                       *)
(***************************************************************************)
VerInit ==
    /\ d \in Dictionaries
    /\ key \in Keys
    /\ file \in Paths
    /\ rootdir \in RootDirs
    /\ pc = "verify"
    /\ errno = 0
    /\ sha256d = NULL
    /\ iter_calls = <<>>
    /\ check_calls = <<>>
    /\ content = <<>>
    /\ off = 0
    /\ len = 0
    /\ ctx = <<>>
    /\ finalized = FALSE
    /\ dst = <<>>
    /\ fd_calls = <<>>
    /\ ioerr = 0
    /\ raw_ret = FALSE
    /\ rv = 0
    /\ ret = 0

VerIdle ==
    /\ d = [files |-> NoArray, conf_files |-> NoArray]
    /\ key = "files"
    /\ file = <<>>
    /\ rootdir = <<>>
    /\ pc = "idle"
    /\ errno = 0
    /\ sha256d = NULL
    /\ iter_calls = <<>>
    /\ check_calls = <<>>
    /\ content = <<>>
    /\ off = 0
    /\ len = 0
    /\ ctx = <<>>
    /\ finalized = FALSE
    /\ dst = <<>>
    /\ fd_calls = <<>>
    /\ ioerr = 0
    /\ raw_ret = FALSE
    /\ rv = 0
    /\ ret = 0

\* lines 241-254, up to the open() of xbps_file_sha256_raw
xbps_file_hash_check_dictionary ==
    /\ pc = "verify"
    /\ LET r == file_hash_dictionary(d, key, file, errno)
       IN  /\ sha256d' = r.sha256
           /\ errno' = r.errno
           /\ iter_calls' = r.calls
           /\ IF r.sha256 = NULL
              THEN /\ ret' = NotFoundReturn(r.errno)
                   /\ pc' = "done"
                   /\ UNCHANGED check_calls
              ELSE /\ check_calls' = Append(check_calls,
                                            [file |-> EffectivePath(rootdir, file),
                                             sha256 |-> r.sha256])
                   /\ pc' = "open"
                   /\ UNCHANGED ret
    /\ UNCHANGED <<d, key, file, rootdir, content, off, len, ctx, finalized, dst,
                   fd_calls, ioerr, raw_ret, rv, hexVars, mapVars>>

\* line 106, and on failure the returns of lines 107, 186 and 255-260
RawOpen ==
    /\ pc = "open"
    /\ \/ \E e \in OpenErrnos :
            /\ errno' = e
            /\ ioerr' = e
            /\ fd_calls' = Append(fd_calls, SysCall("open", check_calls[1].file, FALSE))
            /\ raw_ret' = FALSE
            /\ rv' = sha256_check_return(FALSE, e, sha256d, dst)
            /\ ret' = check_dictionary_return(sha256_check_return(FALSE, e, sha256d, dst))
            /\ pc' = "done"
            /\ UNCHANGED <<content, ctx>>
       \/ \E c \in FileContents :
            /\ content' = c
            /\ ctx' = SHA256_Init
            /\ fd_calls' = Append(fd_calls, SysCall("open", check_calls[1].file, TRUE))
            /\ pc' = "read"
            /\ UNCHANGED <<errno, ioerr, raw_ret, rv, ret>>
    /\ UNCHANGED <<d, key, file, rootdir, sha256d, iter_calls, check_calls, off, len,
                   finalized, dst, hexVars, mapVars>>

\* lines 111-112: one read() and, when it returned bytes, the update
RawRead ==
    /\ pc = "read"
    /\ \/ \E n \in 1..Min(BufSize, Len(content) - off) :
            /\ len' = n
            /\ ctx' = SHA256_Update(ctx, ReadBytes(content, off, n))
            /\ off' = off + n
            /\ UNCHANGED <<pc, errno, ioerr>>
       \/ /\ off = Len(content)
          /\ len' = 0
          /\ pc' = "close"
          /\ UNCHANGED <<ctx, off, errno, ioerr>>
       \/ \E e \in ReadErrnos :
            /\ len' = -1
            /\ errno' = e
            /\ ioerr' = e
            /\ pc' = "close"
            /\ UNCHANGED <<ctx, off>>
    /\ UNCHANGED <<d, key, file, rootdir, sha256d, iter_calls, check_calls, content,
                   finalized, dst, fd_calls, raw_ret, rv, ret, hexVars, mapVars>>

\* lines 114-121, then the returns of lines 185-191 and 255-260.  close()
\* succeeds (ce = 0, errno untouched) or fails and sets errno.
RawClose ==
    /\ pc = "close"
    /\ \E ce \in {0} \cup CloseErrnos :
         LET e == IF ce = 0 THEN errno ELSE ce
             ok == len # -1
             digest == IF ok THEN SHA256_Final(ctx) ELSE dst
             r == sha256_check_return(ok, e, sha256d, digest)
         IN  /\ errno' = e
             /\ fd_calls' = Append(fd_calls, SysCall("close", "fd", ce = 0))
             /\ finalized' = ok
             /\ dst' = digest
             /\ raw_ret' = ok
             /\ rv' = r
             /\ ret' = check_dictionary_return(r)
    /\ pc' = "done"
    /\ UNCHANGED <<d, key, file, rootdir, sha256d, iter_calls, check_calls, content,
                   off, len, ctx, ioerr, hexVars, mapVars>>

(***************************************************************************)
(* Specifications.                                                         *)
(***************************************************************************)
InitHex == HexInit /\ MapIdle /\ VerIdle
NextHex == Compare \/ Encode
SpecHex == InitHex /\ [][NextHex]_vars

InitMap == HexIdle /\ MapInit /\ VerIdle
NextMap == xbps_mmap_file \/ CallerMunmap
SpecMap == InitMap /\ [][NextMap]_vars

Init == HexIdle /\ MapIdle /\ VerInit
Next == xbps_file_hash_check_dictionary \/ RawOpen \/ RawRead \/ RawClose
Spec == Init /\ [][Next]_vars

(***************************************************************************)
(* Properties.                                                             *)
(***************************************************************************)
\* what the digest text format and the lookup rule ask for, written without
\* the operators that model the code
RoundUp(n, pg) == ((n + pg - 1) \div pg) * pg

ExpectedDigest(dict, k, f) ==
    IF dict[k] = NoArray THEN NULL
    ELSE LET arr == dict[k]
             idx == {i \in 1..Len(arr) : arr[i].file = f}
         IN  IF idx = {} THEN NULL
             ELSE arr[CHOOSE i \in idx : \A j \in idx : i <= j].sha256

CountCalls(calls, name, ok) ==
    Cardinality({i \in 1..Len(calls) : calls[i].call = name /\ calls[i].ok = ok})

CheckCalled == check_calls # <<>>

C2_MappedAndRequestedLengths ==
    (mm_pc # "call" /\ mm_pc # "idle" /\ mm_ret) =>
        /\ mmflen = RoundUp(st_size, pgsize)
        /\ filelen = st_size
        /\ mmflen >= filelen
        /\ mm_reqlen = (IF st_size % pgsize = 0 THEN mmflen + pgsize ELSE mmflen)
        /\ mm_reqlen > filelen

\* a file of a whole number of pages, not empty, was mapped
C2_Witness ==
    /\ mm_pc = "returned"
    /\ mm_ret
    /\ st_size > 0
    /\ st_size % pgsize = 0

\* C7 (as claimed): once the caller has called munmap with the returned
\* address and the returned mapped length, nothing of what mmap reserved
\* remains mapped.
C7_UnmapReleasesEverything ==
    mm_pc = "unmapped" => mm_mapped = 0

\* C8 (as claimed): when xbps_mmap_file, xbps_file_sha256_raw and
\* file_hash_dictionary have returned, every descriptor and iterator they
\* acquired was released exactly once, and no release was issued for a
\* descriptor, iterator or mapping that was never acquired.
C8_ReleasesMatchAcquisitions ==
    /\ (mm_pc = "returned") =>
         /\ CountCalls(mm_calls, "close", TRUE) = CountCalls(mm_calls, "open", TRUE)
         /\ \A i \in 1..Len(mm_calls) :
              mm_calls[i].call = "munmap" => mm_calls[i].arg # "MAP_FAILED"
    /\ (pc = "done") =>
         /\ CountCalls(fd_calls, "close", TRUE) + CountCalls(fd_calls, "close", FALSE)
               = CountCalls(fd_calls, "open", TRUE)
         /\ CountCalls(iter_calls, "xbps_object_iterator_release", TRUE)
               = CountCalls(iter_calls, "xbps_array_iter_from_dict", TRUE)

\* C3 (as claimed): when the lookup finds no digest, the value returned is
\* none of the values returned for a match, a mismatch or an error.
C3_NotFoundValueIsDistinct ==
    (pc = "done" /\ ExpectedDigest(d, key, file) = NULL) =>
        ret \notin {check_dictionary_return(r) : r \in {0, ERANGE, ENOENT, EIO}}

\* C3 (amended): when the lookup finds no digest, the call returns 1 at once,
\* having called neither xbps_file_sha256_check nor open; 1 is the value
\* also returned for a mismatch, and differs from the values returned for a
\* match and for an error.
C3_NotFoundReturnsOneWithoutHashing ==
    (pc # "verify" /\ pc # "idle" /\ ExpectedDigest(d, key, file) = NULL) =>
        /\ pc = "done"
        /\ ret = 1
        /\ check_calls = <<>>
        /\ fd_calls = <<>>
        /\ ret = check_dictionary_return(ERANGE)
        /\ ret # check_dictionary_return(0)
        /\ ret # check_dictionary_return(EIO)

\* the path is listed under the key, and its first entry carries no digest
C3_Witness ==
    /\ pc = "done"
    /\ d[key] # NoArray
    /\ \E i \in 1..Len(d[key]) : d[key][i].file = file
    /\ ExpectedDigest(d, key, file) = NULL

\* C4: when a digest was found, the value returned is 0 if
\* xbps_file_sha256_check returned 0, 1 if it returned ERANGE or ENOENT, and
\* -1 for every other value; 0 is returned only when the file was read to
\* its end, its digest finalized, and the text of that digest is the
\* expected string.
C4_ResultMapping ==
    (pc = "done" /\ sha256d # NULL) =>
        /\ CheckCalled
        /\ ret = (IF rv = 0 THEN 0 ELSE IF rv \in {ERANGE, ENOENT} THEN 1 ELSE -1)
        /\ (ret = 0 => /\ raw_ret
                       /\ finalized
                       /\ sha256d = HexText(SHA256_Final(content)))

\* the file is absent on disk and the call reports a mismatch
C4_Witness ==
    /\ pc = "done"
    /\ sha256d # NULL
    /\ rv = ENOENT
    /\ ret = 1

\* C5 (as claimed): when xbps_file_sha256_raw fails in open or read,
\* xbps_file_sha256_check returns the error code that open or read set,
\* whatever the later steps of the call did, and neither 0 nor ERANGE.
C5_ErrorCodeUnchanged ==
    (pc = "done" /\ CheckCalled /\ ~raw_ret) =>
        /\ rv = ioerr
        /\ rv # 0
        /\ rv # ERANGE

\* C6: file_hash_dictionary returns the digest field of the first entry
\* under the key whose file equals the path, NULL when that entry has no
\* digest field, when no entry matches, and when the key holds no array.
C6_FirstMatchingEntryDecides ==
    (pc # "verify" /\ pc # "idle") => sha256d = ExpectedDigest(d, key, file)

\* two entries share the path and differ in their digest field
C6_Witness ==
    /\ pc = "done"
    /\ d[key] # NoArray
    /\ Len(d[key]) >= 2
    /\ d[key][1].file = file
    /\ d[key][2].file = file
    /\ d[key][1].sha256 # d[key][2].sha256

\* C9: xbps_file_sha256_check is called once when a digest was found and
\* not at all otherwise; its path is the file unmodified when rootdir is
\* "/", else rootdir, "/" and the file concatenated; its digest is the one
\* found for the file; the path open() receives is that path.
C9_EffectivePath ==
    (pc # "verify" /\ pc # "idle") =>
        IF ExpectedDigest(d, key, file) = NULL
        THEN check_calls = <<>>
        ELSE /\ check_calls =
                  <<[file |-> IF rootdir = <<"/">> THEN file
                              ELSE rootdir \o <<"/">> \o file,
                     sha256 |-> ExpectedDigest(d, key, file)]>>
             /\ (fd_calls # <<>> => fd_calls[1].arg = check_calls[1].file)

\* a rootdir other than "/" and a call completed
C9_Witness ==
    /\ pc = "done"
    /\ rootdir = <<"/", "r">>
    /\ CheckCalled
    /\ fd_calls # <<>>

\* C10: whatever the reads return, the accumulator holds the bytes of the
\* file up to the file offset; the digest is finalized only after a read
\* returned 0, and is then the digest of the file's content (of the empty
\* input for an empty file); after a failed open or read nothing is
\* finalized and the destination buffer is not written.
C10_DigestOfContent ==
    /\ (pc \in {"read", "close"}) => ctx = SubSeq(content, 1, off)
    /\ finalized => len = 0
    /\ (pc = "done" /\ CheckCalled /\ raw_ret) =>
         /\ finalized
         /\ ctx = content
         /\ dst = SHA256_Final(content)
         /\ (content = <<>> => dst = EmptySha256)
    /\ (pc = "done" /\ CheckCalled /\ ~raw_ret) =>
         /\ ~finalized
         /\ dst = <<>>

\* a file longer than the buffer, whose bytes are not in increasing order,
\* was hashed to its end
C10_Witness ==
    /\ pc = "done"
    /\ raw_ret
    /\ Len(content) > BufSize
    /\ content[1] > content[2]

====
